---- MODULE Spec2Model ----
(***************************************************************************)
(* tidy.py -- safe file tidying CLI (dedupe, organize, encrypt).           *)
(*                                                                         *)
(* A path is the sequence of its components below "/", a component is the  *)
(* sequence of its characters.  The filesystem fs maps every existing path *)
(* to its directory entry (directory, regular file or symbolic link).      *)
(* One action is one invocation of main().                                 *)
(***************************************************************************)
EXTENDS Integers, Sequences, FiniteSets, TLC

VARIABLES fs,     \* the filesystem after the last invocation
          pre,    \* the filesystem before the last invocation
          args,   \* the arguments of the last invocation
          out,    \* the lines the last invocation printed
          sys,    \* the filesystem calls the last invocation made, in order
          code,   \* how the last invocation ended: exit code, or "raise"
          ret,    \* what the actions of the last invocation returned
          runs    \* the number of invocations so far

vars == <<fs, pre, args, out, sys, code, ret, runs>>

----------------------------------------------------------------------------
(* Bounds of the model *)

\* invocations of main() in one behaviour
MaxRuns == 2
\* directory entries (regular files and symbolic links) in the initial tree
MaxFiles == 3

----------------------------------------------------------------------------
(* Strings: sequences of characters *)

Alphabet == <<".", "0", "1", "2", "3", "4", "5", "6", "7", "8", "9",
              "A", "T", "X", "_",
              "a", "b", "c", "d", "e", "f", "g", "i", "k", "l", "n", "o",
              "p", "r", "s", "t", "u", "x", "y", "z">>

Ord(c) == CHOOSE i \in 1..Len(Alphabet) : Alphabet[i] = c

\* s < t for two strings: at the first place they differ s has ended or
\* holds the smaller character
StrLess(s, t) ==
    \E i \in 1..Len(t) :
        /\ \A j \in 1..(i - 1) : j <= Len(s) /\ s[j] = t[j]
        /\ i <= Len(s) => Ord(s[i]) < Ord(t[i])

\* the value bound to x in F(x), computed once
Then(v, F(_)) == CHOOSE r \in {F(x) : x \in {v}} : TRUE

\* str.lower() on the characters of the alphabet
LowerChar(c) ==
    CASE c = "A" -> "a"
      [] c = "T" -> "t"
      [] c = "X" -> "x"
      [] OTHER -> c

lower(s) == [i \in 1..Len(s) |-> LowerChar(s[i])]

\* str.lstrip('.')
lstrip_dot(s) ==
    LET kept == {i \in 1..Len(s) : \E j \in 1..i : s[j] # "."}
    IN [i \in 1..Cardinality(kept) |-> s[Len(s) - Cardinality(kept) + i]]

startswith_dot(s) == s # <<>> /\ s[1] = "."

endswith(s, t) ==
    /\ Len(t) <= Len(s)
    /\ SubSeq(s, Len(s) - Len(t) + 1, Len(s)) = t

\* f"{counter}"
DigitChar(d) == Alphabet[d + 2]

RECURSIVE Decimal(_)
Decimal(n) ==
    IF n < 10 THEN <<DigitChar(n)>>
    ELSE Decimal(n \div 10) \o <<DigitChar(n % 10)>>

\* f"{n:0{w}d}" of the digits s
ZeroPad(s, w) ==
    IF Len(s) >= w THEN s ELSE [i \in 1..(w - Len(s)) |-> "0"] \o s

----------------------------------------------------------------------------
(* pathlib.PurePath *)

parent(p) == SubSeq(p, 1, Len(p) - 1)
name(p) == p[Len(p)]
\* dir / name
Join(d, n) == Append(d, n)

\* str.rfind('.') as a 1-based index, 0 when there is none
rfind_dot(n) ==
    LET dots == {i \in 1..Len(n) : n[i] = "."}
    IN IF dots = {} THEN 0 ELSE CHOOSE i \in dots : \A j \in dots : j <= i

\* PurePath.suffix: the last dot, unless it leads or ends the name
suffix_of(n) ==
    LET i == rfind_dot(n)
    IN IF 1 < i /\ i < Len(n) THEN SubSeq(n, i, Len(n)) ELSE <<>>

stem_of(n) ==
    LET i == rfind_dot(n)
    IN IF 1 < i /\ i < Len(n) THEN SubSeq(n, 1, i - 1) ELSE n

\* PurePath.with_suffix
with_suffix(n, suf) == stem_of(n) \o suf

\* PurePath.relative_to: the components below base
relative_to(p, base) == SubSeq(p, Len(base) + 1, Len(p))

\* str(path) of an absolute path: "/" before every component
RECURSIVE str_upto(_, _)
str_upto(p, n) ==
    IF n = 0 THEN <<>> ELSE str_upto(p, n - 1) \o <<"/">> \o p[n]

str(p) == str_upto(p, Len(p))

----------------------------------------------------------------------------
(* The names main() and the actions construct *)

DUPLICATES == <<"_", "d", "u", "p", "l", "i", "c", "a", "t", "e", "s">>
ORGANIZED == <<"_", "o", "r", "g", "a", "n", "i", "z", "e", "d">>
ENCRYPTED == <<"_", "e", "n", "c", "r", "y", "p", "t", "e", "d">>
KEY_FERNET == <<"_", "k", "e", "y", ".", "f", "e", "r", "n", "e", "t">>
NOEXT == <<"n", "o", "e", "x", "t">>
DOT_ENC == <<".", "e", "n", "c">>

----------------------------------------------------------------------------
(* The filesystem *)

DirEntry == [kind |-> "dir", data |-> <<>>, mtime |-> 0, target |-> <<>>]
RegEntry(d, m) == [kind |-> "reg", data |-> d, mtime |-> m, target |-> <<>>]
SymEntry(t) == [kind |-> "sym", data |-> <<>>, mtime |-> 0, target |-> t]

lexists(f, p) == p \in DOMAIN f

\* os.path.realpath of a path whose directories are no links: follow the
\* link at p, and the links it leads to
RECURSIVE resolve_n(_, _, _)
resolve_n(f, p, fuel) ==
    IF fuel > 0 /\ lexists(f, p) /\ f[p].kind = "sym"
    THEN resolve_n(f, f[p].target, fuel - 1)
    ELSE p

resolve(f, p) == resolve_n(f, p, Cardinality(DOMAIN f))

\* Path.exists, Path.is_file, Path.is_dir follow links
KindAt(f, p) ==
    LET q == resolve(f, p)
    IN IF lexists(f, q) THEN f[q].kind ELSE "none"

exists(f, p) == KindAt(f, p) \in {"reg", "dir"}
is_file(f, p) == KindAt(f, p) = "reg"
is_dir(f, p) == KindAt(f, p) = "dir"

\* the bytes behind p, the size and the modification time stat() reports
read_bytes(f, p) == f[resolve(f, p)].data
st_mtime(f, p) == f[resolve(f, p)].mtime

Put(f, p, e) == [q \in DOMAIN f \cup {p} |-> IF q = p THEN e ELSE f[q]]
Remove(f, p) == [q \in DOMAIN f \ {p} |-> f[q]]

\* os.rename: the entry at src, a link included, becomes the entry at dst
Rename(f, src, dst) == Remove(Put(f, dst, f[src]), src)

----------------------------------------------------------------------------
(* The run: the filesystem, what was printed, the filesystem calls made,   *)
(* how the run ended ("" while it is running), the files collected, the    *)
(* counter of the running action, the key in use and what the actions      *)
(* returned                                                                *)

World(f) == [fs |-> f, out |-> <<>>, sys |-> <<>>, err |-> "",
             acc |-> <<>>, count |-> 0, key |-> <<>>,
             ret |-> [dedupe |-> <<>>, organize |-> <<>>, encrypt |-> <<>>]]

Line(what, p, q, dry) == [line |-> what, src |-> p, dst |-> q, dry |-> dry]
\* a filesystem call on p (and q), and the filesystem it left
Call(what, p, q, f) == [call |-> what, path |-> p, to |-> q, st |-> f]

\* print_action: the line, marked [DRY-RUN] under dry_run
print_action(w, what, p, q, dry_run) ==
    [w EXCEPT !.out = Append(@, Line(what, p, q, dry_run))]

\* print
print(w, what, p) == [w EXCEPT !.out = Append(@, Line(what, p, <<>>, FALSE))]

Did(w, what, p, q) == [w EXCEPT !.sys = Append(@, Call(what, p, q, w.fs))]

\* an exception no handler of the program catches
Raise(w) == [w EXCEPT !.err = "raise"]

Running(w) == w.err = ""

----------------------------------------------------------------------------
(* PathFilter *)

is_hidden(p) == \E i \in 1..Len(p) : startswith_dot(p[i])

\* fnmatch.fnmatch for a pattern that is a literal or "*" and a literal
fnmatch(s, pattern) ==
    IF pattern # <<>> /\ pattern[1] = "*"
    THEN endswith(s, Tail(pattern))
    ELSE s = pattern

should_skip(p, include_hidden, exclude_globs) ==
    \/ ~include_hidden /\ is_hidden(p)
    \/ \E i \in 1..Len(exclude_globs) : fnmatch(str(p), exclude_globs[i])

----------------------------------------------------------------------------------------------------------------------------------------------
(* ensure_directory: Path.mkdir(parents=True, exist_ok=True) *)

RECURSIVE ensure_directory(_, _)
ensure_directory(w, d) ==
    IF ~Running(w) THEN w
    ELSE IF d = <<>> \/ is_dir(w.fs, d) THEN w
    ELSE IF lexists(w.fs, d) THEN Raise(w)
    ELSE Then(ensure_directory(w, parent(d)), LAMBDA w1 :
            IF ~Running(w1) THEN w1
            ELSE Did([w1 EXCEPT !.fs = Put(@, d, DirEntry)], "mkdir", d, <<>>))

----------------------------------------------------------------------------
(* SafeRelocator *)

\* parent / f"{stem}__{counter}{suffix}"
Candidate(dest, counter) ==
    Join(parent(dest),
         stem_of(name(dest)) \o <<"_", "_">> \o Decimal(counter)
             \o suffix_of(name(dest)))

\* a safe_move that takes the first candidate without probing it
NextFree_unprobed(f, dest, counter) == counter

\* the loop of safe_move: the first counter whose candidate does not exist
RECURSIVE NextFree(_, _, _)
NextFree(f, dest, counter) ==
    IF ~exists(f, Candidate(dest, counter)) THEN counter
    ELSE NextFree(f, dest, counter + 1)

\* the destination safe_move settles on
ResolveDest(f, dest) ==
    IF exists(f, dest) THEN Candidate(dest, NextFree(f, dest, 1)) ELSE dest

\* shutil.move onto a path that is no directory: os.rename
shutil_move(w, src, dest) ==
    IF ~lexists(w.fs, src) THEN Raise(w)
    ELSE Did([w EXCEPT !.fs = Rename(@, src, dest)], "rename", src, dest)

safe_move(w, src, dest, dry_run) ==
    Then(ensure_directory(w, parent(dest)), LAMBDA w1 :
      IF ~Running(w1) THEN w1
      ELSE Then(ResolveDest(w1.fs, dest), LAMBDA final :
        Then(print_action(Did(w1, "exists", dest, final), "move", src, final,
                          dry_run), LAMBDA w2 :
          IF dry_run THEN w2 ELSE shutil_move(w2, src, final))))

----------------------------------------------------------------------------
(* TreeWalker *)

Orders == {"asc", "desc"}

\* the names of S in ascending order
Sorted(S) ==
    [i \in 1..Cardinality(S) |->
        CHOOSE n \in S : Cardinality({o \in S : StrLess(o, n)}) = i - 1]

Reverse(s) == [i \in 1..Len(s) |-> s[Len(s) + 1 - i]]

\* os.scandir: the names in directory d, in the order the filesystem lists
\* them (unspecified; one of Orders)
scandir(f, d, order) ==
    Then({name(p) : p \in {q \in DOMAIN f : Len(q) > 0 /\ parent(q) = d}},
         LAMBDA names :
            IF order = "asc" THEN Sorted(names) ELSE Reverse(Sorted(names)))

\* what the loop over iter_files does with one yielded file
RECURSIVE loop_body(_, _, _)

\* iter_files, the inner loop: each name of one directory in turn, from the
\* i-th on, tested when it is reached
RECURSIVE walk_files(_, _, _, _, _)
walk_files(w, dir, filenames, i, job) ==
    IF i > Len(filenames) \/ ~Running(w) THEN w
    ELSE Then(IF /\ is_file(w.fs, Join(dir, filenames[i]))
                 /\ ~should_skip(Join(dir, filenames[i]), job.include_hidden,
                                 job.exclude_globs)
              THEN loop_body(w, Join(dir, filenames[i]), job)
              ELSE w,
              LAMBDA w1 : walk_files(w1, dir, filenames, i + 1, job))

\* os.walk, top-down, links to directories not followed: a directory is
\* listed when the walk reaches it, its files come before its directories
RECURSIVE iter_files(_, _, _)
RECURSIVE walk_dirs(_, _, _, _, _)
walk_dirs(w, dir, dirnames, i, job) ==
    IF i > Len(dirnames) \/ ~Running(w) THEN w
    ELSE Then(iter_files(w, Join(dir, dirnames[i]), job),
              LAMBDA w1 : walk_dirs(w1, dir, dirnames, i + 1, job))

iter_files(w, root_dir, job) ==
    IF ~is_dir(w.fs, root_dir) THEN w
    ELSE Then(scandir(w.fs, root_dir, job.order), LAMBDA listed :
      Then(SelectSeq(listed, LAMBDA n : ~is_dir(w.fs, Join(root_dir, n))),
           LAMBDA filenames :
        Then(SelectSeq(listed, LAMBDA n :
                /\ is_dir(w.fs, Join(root_dir, n))
                /\ (job.include_hidden \/ ~startswith_dot(n))),
             LAMBDA dirnames :
          Then(walk_files(w, root_dir, filenames, 1, job), LAMBDA w1 :
            walk_dirs(w1, root_dir, dirnames, 1, job)))))

----------------------------------------------------------------------------
(* FingerprintGrouper *)

\* a dict of lists, in insertion order: setdefault(key, []).append(path)
HasKey(d, k) == \E i \in 1..Len(d) : d[i].key = k

setdefault_append(d, k, path) ==
    IF HasKey(d, k)
    THEN [i \in 1..Len(d) |->
            IF d[i].key = k
            THEN [d[i] EXCEPT !.paths = Append(@, path)]
            ELSE d[i]]
    ELSE Append(d, [key |-> k, paths |-> <<path>>])

\* stat().st_size
st_size(f, p) == Len(read_bytes(f, p))

\* the digest of the bytes of the file: equal bytes, equal digest, and
\* different bytes, different digests
compute_file_hash(f, p) == <<"sha256", read_bytes(f, p)>>

\* group_files_by_size, from the i-th file on
RECURSIVE group_files_by_size(_, _, _, _)
group_files_by_size(f, files, i, size_to_files) ==
    IF i > Len(files) THEN size_to_files
    ELSE Then(IF is_file(f, files[i])
              THEN setdefault_append(size_to_files, st_size(f, files[i]),
                                     files[i])
              ELSE size_to_files,
              LAMBDA d : group_files_by_size(f, files, i + 1, d))

\* a find_duplicates that hashes the files of every size bucket
unique_size_hashed(paths) == FALSE

\* if len(paths) < 2: continue
unique_size(paths) == Len(paths) < 2

\* the files of every size bucket of two or more, in the order hashed
RECURSIVE HashCandidates(_, _)
HashCandidates(candidates_by_size, i) ==
    IF i > Len(candidates_by_size) THEN <<>>
    ELSE (IF unique_size(candidates_by_size[i].paths) THEN <<>>
          ELSE candidates_by_size[i].paths)
         \o HashCandidates(candidates_by_size, i + 1)

\* a file that cannot be read (job.read_fails) raises OSError and is passed
\* over
RECURSIVE hash_files(_, _, _, _, _)
hash_files(f, paths, i, hash_to_files, job) ==
    IF i > Len(paths) THEN hash_to_files
    ELSE Then(IF paths[i] \in job.read_fails THEN hash_to_files
              ELSE setdefault_append(hash_to_files,
                                     compute_file_hash(f, paths[i]),
                                     paths[i]),
              LAMBDA d : hash_files(f, paths, i + 1, d, job))

\* the calls of compute_file_hash, in order
LogHashes(w, paths) ==
    [w EXCEPT !.sys = @ \o [i \in 1..Len(paths) |->
                               Call("hash", paths[i], <<>>, w.fs)]]

TrueDuplicate(g) == Len(g.paths) > 1

\* find_duplicates: the run after the walk and the hashing, its acc the
\* duplicate groups
find_duplicates(w, root_dir, job) ==
    Then(iter_files([w EXCEPT !.acc = <<>>], root_dir,
                    [job EXCEPT !.kind = "collect"]), LAMBDA walked :
      Then(group_files_by_size(walked.fs, walked.acc, 1, <<>>),
           LAMBDA candidates_by_size :
        Then(HashCandidates(candidates_by_size, 1), LAMBDA hashed :
          Then(hash_files(walked.fs, hashed, 1, <<>>, job),
               LAMBDA hash_to_files :
            [LogHashes(walked, hashed) EXCEPT
                !.acc = SelectSeq(hash_to_files, TrueDuplicate)]))))

----------------------------------------------------------------------------
(* Path.unlink and Path.write_bytes *)

\* unlink raises OSError for a missing entry and where the environment
\* refuses it (job.unlink_fails)
CanUnlink(w, p, job) == lexists(w.fs, p) /\ p \notin job.unlink_fails

unlink(w, p) == Did([w EXCEPT !.fs = Remove(@, p)], "unlink", p, <<>>)

\* the modification time of a file written by the run (months since year 0)
Now == 12 * 2026 + 10

\* open(p, 'wb') follows a link at p and truncates what is there
write_bytes(w, p, data) ==
    Then(resolve(w.fs, p), LAMBDA q :
      IF is_dir(w.fs, q) \/ ~(parent(q) = <<>> \/ is_dir(w.fs, parent(q)))
      THEN Raise(w)
      ELSE Did([w EXCEPT !.fs = Put(@, q, RegEntry(data, Now))],
               "write", p, q))

----------------------------------------------------------------------------
(* Dedupe *)

\* a dedupe that keeps the first occurrence of every group
original_of_first(paths) == paths[1]

\* min(paths, key=lambda p: len(str(p))): the first of the shortest
original_of(paths) ==
    Then([k \in 1..Len(paths) |-> Len(str(paths[k]))], LAMBDA length :
      paths[CHOOSE k \in 1..Len(paths) :
                /\ \A j \in 1..Len(paths) : length[k] <= length[j]
                /\ \A j \in 1..(k - 1) : length[j] > length[k]])

\* [p for p in paths if p != original]
others_of(paths) ==
    Then(original_of(paths), LAMBDA original :
      SelectSeq(paths, LAMBDA q : q # original))

\* a dedupe that deletes in report mode once --apply is given
dedupe_one_report_applies(w, dup, job) ==
    IF job.mode = "report" /\ job.dry_run
    THEN print_action(w, "duplicate", dup, <<>>, TRUE)
    ELSE IF job.mode = "move"
    THEN Then(safe_move(w, dup, Join(job.dir, name(dup)), job.dry_run),
              LAMBDA moved :
                IF Running(moved) THEN [moved EXCEPT !.count = @ + 1]
                ELSE moved)
    ELSE Then(print_action(w, "delete", dup, <<>>, job.dry_run), LAMBDA w1 :
           IF job.dry_run THEN w1
           ELSE IF CanUnlink(w1, dup, job)
           THEN [unlink(w1, dup) EXCEPT !.count = @ + 1]
           ELSE print(w1, "Failed to delete", dup))

dedupe_one(w, dup, job) ==
    IF job.mode = "report"
    THEN print_action(w, "duplicate", dup, <<>>, TRUE)
    ELSE IF job.mode = "move"
    THEN Then(safe_move(w, dup, Join(job.dir, name(dup)), job.dry_run),
              LAMBDA moved :
                IF Running(moved) THEN [moved EXCEPT !.count = @ + 1]
                ELSE moved)
    ELSE IF job.mode = "delete"
    THEN Then(print_action(w, "delete", dup, <<>>, job.dry_run), LAMBDA w1 :
           IF job.dry_run THEN w1
           ELSE IF CanUnlink(w1, dup, job)
           THEN [unlink(w1, dup) EXCEPT !.count = @ + 1]
           ELSE print(w1, "Failed to delete", dup))
    ELSE Raise(w)

\* the loop over the others of one group, from the i-th on
RECURSIVE dedupe_others(_, _, _, _)
dedupe_others(w, others, i, job) ==
    IF i > Len(others) \/ ~Running(w) THEN w
    ELSE Then(dedupe_one(w, others[i], job),
              LAMBDA w1 : dedupe_others(w1, others, i + 1, job))

\* the loop over the groups, from the i-th on
RECURSIVE dedupe_groups(_, _, _, _)
dedupe_groups(w, duplicates, i, job) ==
    IF i > Len(duplicates) \/ ~Running(w) THEN w
    ELSE Then(dedupe_others(print(w, "keep",
                                  original_of(duplicates[i].paths)),
                            others_of(duplicates[i].paths), 1, job),
              LAMBDA w1 : dedupe_groups(w1, duplicates, i + 1, job))

\* dedupe_action: the run after it, its acc the duplicate groups found and
\* its count the second component of the result
dedupe_action(w, root_dir, job) ==
    Then(find_duplicates([w EXCEPT !.count = 0], root_dir, job),
         LAMBDA found :
            IF found.acc = <<>>
            THEN print(found, "No duplicates found.", <<>>)
            ELSE dedupe_groups(print(found, "Found duplicate groups.", <<>>),
                               found.acc, 1, job))

----------------------------------------------------------------------------
(* Organize *)

\* time.localtime of a modification time kept in months since year 0
tm_year(t) == t \div 12
tm_mon(t) == (t % 12) + 1

target_dir_of(w, file_path, job) ==
    IF job.mode = "ext"
    THEN Then(lstrip_dot(lower(suffix_of(name(file_path)))), LAMBDA ext :
           Join(job.dir, IF ext = <<>> THEN NOEXT ELSE ext))
    ELSE Join(Join(job.dir,
                   ZeroPad(Decimal(tm_year(st_mtime(w.fs, file_path))), 4)),
              ZeroPad(Decimal(tm_mon(st_mtime(w.fs, file_path))), 2))

organize_one(w, file_path, job) ==
    Then(Join(target_dir_of(w, file_path, job), name(file_path)),
         LAMBDA target_path :
            IF resolve(w.fs, target_path) = resolve(w.fs, file_path) THEN w
            ELSE Then(safe_move(w, file_path, target_path, job.dry_run),
                      LAMBDA moved :
                        IF Running(moved) THEN [moved EXCEPT !.count = @ + 1]
                        ELSE moved))

\* organize_files: the run after it, its count the result
organize_files(w, root_dir, job) ==
    Then(iter_files([w EXCEPT !.count = 0], root_dir,
                    [job EXCEPT !.kind = "organize"]), LAMBDA done :
            IF Running(done) /\ done.count = 0
            THEN print(done, "No files to organize or already organized.",
                       <<>>)
            ELSE done)

----------------------------------------------------------------------------
(* KeyStore and Encrypt *)

\* key bytes as Fernet.generate_key or the os.urandom fallback make them
KeyBytes(id) == <<"key", id>>
\* Fernet(key) raises ValueError for bytes that are no key
IsKey(data) == Len(data) = 2 /\ data[1] = "key"
\* Fernet.encrypt: a token under the key, not the plain bytes
fernet_encrypt(key, data) == <<"fernet", key[2]>> \o data

read_or_create_key(w, key_file, job) ==
    IF is_dir(w.fs, key_file) THEN Raise(w)
    ELSE IF exists(w.fs, key_file)
    THEN [w EXCEPT !.key = read_bytes(w.fs, key_file)]
    ELSE Then(ensure_directory(w, parent(key_file)), LAMBDA w1 :
           IF ~Running(w1) THEN w1
           ELSE Then(write_bytes(w1, key_file, KeyBytes(job.new_key)),
                     LAMBDA w2 :
                        IF ~Running(w2) THEN w2
                        ELSE [print(w2, "Wrote key file", key_file) EXCEPT
                                !.key = KeyBytes(job.new_key)]))

encrypt_file(w, src, dest, key, job) ==
    IF ~job.lib
    THEN [print(w, "'cryptography' is not installed", <<>>) EXCEPT
            !.err = "exit2"]
    ELSE Then(ensure_directory(w, parent(dest)), LAMBDA w1 :
           IF ~Running(w1) THEN w1
           ELSE Then(print_action(w1, "encrypt", src, dest, job.dry_run),
                     LAMBDA w2 :
                        IF job.dry_run THEN w2
                        ELSE IF ~IsKey(key) THEN Raise(w2)
                        ELSE IF src \in job.read_fails THEN Raise(w2)
                        ELSE write_bytes(Did(w2, "read", src, <<>>), dest,
                                fernet_encrypt(key, read_bytes(w2.fs, src)))))

\* output_dir / relative.with_suffix(relative.suffix + '.enc')
encrypted_path(file_path, job) ==
    Then(relative_to(file_path, job.root), LAMBDA relative :
      Join(job.dir \o parent(relative),
           with_suffix(name(relative), suffix_of(name(relative)) \o DOT_ENC)))

\* an encrypt_tree that deletes the originals in a dry run too
remove_original_in_dry_run(w, file_path, job) ==
    IF ~job.remove_originals THEN w
    ELSE Then(print_action(w, "delete original", file_path, <<>>,
                           job.dry_run), LAMBDA w1 :
           IF CanUnlink(w1, file_path, job) THEN unlink(w1, file_path)
           ELSE print(w1, "Failed to delete", file_path))

remove_original(w, file_path, job) ==
    IF ~job.remove_originals THEN w
    ELSE Then(print_action(w, "delete original", file_path, <<>>,
                           job.dry_run), LAMBDA w1 :
           IF job.dry_run THEN w1
           ELSE IF CanUnlink(w1, file_path, job) THEN unlink(w1, file_path)
           ELSE print(w1, "Failed to delete", file_path))

\* an encrypt_tree that takes the files bearing '.enc' too
already_encrypted_never(file_path) == FALSE

\* if file_path.suffix == '.enc': continue
already_encrypted(file_path) == suffix_of(name(file_path)) = DOT_ENC

encrypt_one(w, file_path, job) ==
    IF already_encrypted(file_path) THEN w
    ELSE Then(encrypt_file(w, file_path, encrypted_path(file_path, job),
                           w.key, job), LAMBDA w1 :
           IF ~Running(w1) THEN w1
           ELSE Then(remove_original(w1, file_path, job), LAMBDA w2 :
                  [w2 EXCEPT !.count = @ + 1]))

\* encrypt_tree: the run after it, its count the result
encrypt_tree(w, root_dir, key_file, job) ==
    Then(read_or_create_key([w EXCEPT !.count = 0], key_file, job),
         LAMBDA keyed :
            IF ~Running(keyed) THEN keyed
            ELSE Then(iter_files(keyed, root_dir,
                                 [job EXCEPT !.kind = "encrypt"]),
                      LAMBDA done :
                        IF Running(done) /\ done.count = 0
                        THEN print(done, "No files encrypted", <<>>)
                        ELSE done))

----------------------------------------------------------------------------
(* The body of the loop over iter_files, by the action that loops *)

loop_body(w, file_path, job) ==
    IF job.kind = "collect" THEN [w EXCEPT !.acc = Append(@, file_path)]
    ELSE IF job.kind = "organize" THEN organize_one(w, file_path, job)
    ELSE encrypt_one(w, file_path, job)

----------------------------------------------------------------------------
(* main *)

\* what the actions read of the arguments and of the environment
Job(a, root_dir, mode, dir) ==
    [kind |-> "", root |-> root_dir, mode |-> mode, dir |-> dir,
     include_hidden |-> a.include_hidden, exclude_globs |-> a.exclude_glob,
     dry_run |-> ~a.apply, remove_originals |-> a.remove_originals,
     order |-> a.order, unlink_fails |-> a.unlink_fails,
     read_fails |-> a.read_fails, lib |-> a.lib, new_key |-> a.new_key]

\* args.x or (root_dir / default)
OrDefault(dir, root_dir, default) ==
    IF dir # <<>> THEN dir ELSE Join(root_dir, default)

main_dedupe(w, a, root_dir) ==
    IF a.dedupe = "none" \/ ~Running(w) THEN w
    ELSE Then(Job(a, root_dir, a.dedupe,
                  OrDefault(a.duplicates_dir, root_dir, DUPLICATES)),
              LAMBDA job :
      Then(IF a.dedupe = "move" THEN ensure_directory(w, job.dir) ELSE w,
           LAMBDA w1 :
        IF ~Running(w1) THEN w1
        ELSE Then(dedupe_action(w1, root_dir, job), LAMBDA w2 :
               IF ~Running(w2) THEN w2
               ELSE [w2 EXCEPT !.ret.dedupe = <<Len(w2.acc), w2.count>>])))

main_organize(w, a, root_dir) ==
    IF a.organize = "none" \/ ~Running(w) THEN w
    ELSE Then(Job(a, root_dir, a.organize,
                  OrDefault(a.organize_dir, root_dir, ORGANIZED)),
              LAMBDA job :
      Then(ensure_directory(w, job.dir), LAMBDA w1 :
        IF ~Running(w1) THEN w1
        ELSE Then(organize_files(w1, root_dir, job), LAMBDA w2 :
               IF ~Running(w2) THEN w2
               ELSE [w2 EXCEPT !.ret.organize = <<w2.count>>])))

main_encrypt(w, a, root_dir) ==
    IF ~a.encrypt \/ ~Running(w) THEN w
    ELSE Then(Job(a, root_dir, "",
                  OrDefault(a.encryption_output_dir, root_dir, ENCRYPTED)),
              LAMBDA job :
      Then(ensure_directory(w, job.dir), LAMBDA w1 :
        IF ~Running(w1) THEN w1
        ELSE Then(encrypt_tree(w1, root_dir,
                               OrDefault(a.key_file, root_dir, KEY_FERNET),
                               job), LAMBDA w2 :
               IF ~Running(w2) THEN w2
               ELSE [w2 EXCEPT !.ret.encrypt = <<w2.count>>])))

\* main: the run at its end; err is the exit code, or "raise"
main(f, a) ==
    Then(resolve(f, a.root), LAMBDA root_dir :
      IF ~exists(f, root_dir) \/ ~is_dir(f, root_dir)
      THEN [print(World(f), "Root directory does not exist", root_dir)
               EXCEPT !.err = "2"]
      ELSE Then(main_dedupe(World(f), a, root_dir), LAMBDA w1 :
             Then(main_organize(w1, a, root_dir), LAMBDA w2 :
               Then(main_encrypt(w2, a, root_dir), LAMBDA w :
                 IF w.err = "exit2" THEN [w EXCEPT !.err = "2"]
                 ELSE IF ~Running(w) THEN w
                 ELSE [w EXCEPT !.err = "0"]))))

----------
(* The trees and the invocations explored *)

Root == << <<"r">> >>
Outside == << <<"o">> >>
A_TXT == <<"a", ".", "t", "x", "t">>
TXT == <<"t", "x", "t">>

FileA == Join(Root, A_TXT)
FileSA == Join(Join(Root, <<"s">>), A_TXT)
FileHA == Join(Join(Root, <<".", "t">>), <<"a", ".", "T", "X", "T">>)
FileB == Join(Root, <<"b">>)
LinkL == Join(Root, <<"l">>)
OrganizedA == Join(Join(Join(Root, ORGANIZED), TXT), A_TXT)

\* modification times, in months since year 0
Jan2024 == 12 * 2024
Dec2025 == 12 * 2025 + 11

\* the entries an initial tree may hold at each path
Options(p) ==
    CASE p = FileA -> {RegEntry(<<"x", "x">>, Jan2024),
                       RegEntry(<<"y", "y">>, Jan2024)}
      [] p = FileSA -> {RegEntry(<<"x", "x">>, Dec2025),
                        RegEntry(<<"y", "y">>, Dec2025)}
      [] p = FileHA -> {RegEntry(<<"x", "x">>, Jan2024)}
      [] p = FileB -> {RegEntry(<<"x", "x">>, Dec2025),
                       RegEntry(<<"z">>, Dec2025)}
      [] p = LinkL -> {SymEntry(FileSA), SymEntry(OrganizedA)}

Slots == {FileA, FileSA, FileHA, FileB, LinkL}

AllOptions == UNION {Options(p) : p \in Slots}

Prefixes(p) == {SubSeq(p, 1, n) : n \in 1..(Len(p) - 1)}

\* the tree holding the entries e, the root and the directories above them
Tree(e) ==
    LET dirs == {Root} \cup UNION {Prefixes(p) : p \in DOMAIN e}
    IN [p \in dirs \cup DOMAIN e |-> IF p \in DOMAIN e THEN e[p] ELSE DirEntry]

Trees ==
    {Tree(e) : e \in UNION {{g \in [P -> AllOptions] :
                                \A p \in P : g[p] \in Options(p)} :
                            P \in {Q \in SUBSET Slots :
                                      Cardinality(Q) <= MaxFiles}}}

BaseArgs ==
    [root |-> Root, include_hidden |-> FALSE, exclude_glob |-> <<>>,
     apply |-> FALSE, dedupe |-> "none", duplicates_dir |-> <<>>,
     organize |-> "none", organize_dir |-> <<>>, encrypt |-> FALSE,
     encryption_output_dir |-> <<>>, key_file |-> <<>>,
     remove_originals |-> FALSE,
     order |-> "asc", unlink_fails |-> {}, read_fails |-> {}, lib |-> TRUE,
     new_key |-> "k1"]

\* --dedupe: every mode, dry and applied, the duplicates directory under
\* the root (the default) and outside it; a refused unlink; the other
\* listing order with hidden entries included
DedupeArgs ==
    {[BaseArgs EXCEPT !.dedupe = m, !.apply = ap] :
        m \in {"report", "delete"}, ap \in BOOLEAN}
    \cup {[BaseArgs EXCEPT !.dedupe = "move", !.apply = ap,
                           !.duplicates_dir = d] :
            ap \in BOOLEAN, d \in {<<>>, Outside}}
    \cup {[BaseArgs EXCEPT !.dedupe = "delete", !.apply = TRUE,
                           !.unlink_fails = {FileSA}]}
    \cup {[BaseArgs EXCEPT !.dedupe = m, !.apply = TRUE, !.order = "desc",
                           !.include_hidden = TRUE] :
            m \in {"move", "delete"}}

\* --organize: both modes, dry and applied, the organize directory under the
\* root (the default) and outside it; the other listing order with hidden
\* entries included
OrganizeArgs ==
    {[BaseArgs EXCEPT !.organize = "ext", !.apply = ap, !.organize_dir = d] :
        ap \in BOOLEAN, d \in {<<>>, Outside}}
    \cup {[BaseArgs EXCEPT !.organize = "date", !.apply = ap] :
            ap \in BOOLEAN}
    \cup {[BaseArgs EXCEPT !.organize = m, !.apply = ap, !.order = "desc",
                           !.include_hidden = TRUE] :
            m \in {"ext", "date"}, ap \in BOOLEAN}

\* --encrypt: dry and applied, with and without --remove-originals, the
\* output directory and the key file under the root (the defaults) and
\* outside it; a refused unlink; a source that cannot be read; another key
\* from Fernet.generate_key
EncryptArgs ==
    {[BaseArgs EXCEPT !.encrypt = TRUE, !.apply = ap,
                      !.remove_originals = rm] :
        ap \in BOOLEAN, rm \in BOOLEAN}
    \cup {[BaseArgs EXCEPT !.encrypt = TRUE, !.apply = TRUE,
                           !.remove_originals = rm,
                           !.encryption_output_dir = Outside,
                           !.key_file = Join(Outside, <<"k">>),
                           !.new_key = "k2", !.order = "desc"] :
            rm \in BOOLEAN}
    \cup {[BaseArgs EXCEPT !.encrypt = TRUE, !.apply = TRUE,
                           !.remove_originals = TRUE,
                           !.unlink_fails = {FileA}]}
    \cup {[BaseArgs EXCEPT !.encrypt = TRUE, !.apply = TRUE,
                           !.read_fails = {FileA}]}
    \cup {[BaseArgs EXCEPT !.encrypt = TRUE, !.apply = TRUE,
                           !.remove_originals = TRUE, !.new_key = "k2"]}

\* invocations that end on a configuration error, and several actions in
\* one invocation: a root that is missing or a file, --encrypt without the
\* cryptography library, the key file under the root and outside it
CombinedArgs ==
    {[BaseArgs EXCEPT !.root = r, !.dedupe = "delete", !.organize = "ext",
                      !.encrypt = TRUE, !.apply = TRUE] :
        r \in {Outside, FileB}}
    \cup {[BaseArgs EXCEPT !.encrypt = TRUE, !.lib = FALSE, !.apply = ap,
                           !.dedupe = m, !.organize = o] :
            ap \in BOOLEAN,
            m \in {"none", "delete"}, o \in {"none", "ext"}}
    \cup {[BaseArgs EXCEPT !.dedupe = "move", !.organize = "ext",
                           !.encrypt = TRUE, !.apply = TRUE]}
    \cup {[BaseArgs EXCEPT !.encrypt = TRUE, !.lib = FALSE,
                           !.key_file = Join(Outside, <<"k">>)]}

Init ==
    /\ fs \in Trees
    /\ pre = fs
    /\ args = BaseArgs
    /\ out = <<>>
    /\ sys = <<>>
    /\ code = ""
    /\ ret = World(fs).ret
    /\ runs = 0

\* main has run with the arguments a
Invoke(a) ==
    \E w \in {main(fs, a)} :
        /\ fs' = w.fs
        /\ out' = w.out
        /\ sys' = w.sys
        /\ code' = w.err
        /\ ret' = w.ret
        /\ pre' = fs
        /\ args' = a
        /\ runs' = runs + 1

\* one invocation with --dedupe
Dedupe ==
    /\ runs < MaxRuns
    /\ \E a \in DedupeArgs : Invoke(a)

\* one invocation with --organize
Organize ==
    /\ runs < MaxRuns
    /\ \E a \in OrganizeArgs : Invoke(a)

\* one invocation with --encrypt
Encrypt ==
    /\ runs < MaxRuns
    /\ \E a \in EncryptArgs : Invoke(a)

\* one invocation with several actions, or one that ends on an error
Combined ==
    /\ runs < MaxRuns
    /\ \E a \in CombinedArgs : Invoke(a)

Next == Dedupe \/ Organize \/ Encrypt \/ Combined

Spec == Init /\ [][Next]_vars
SpecDedupe == Init /\ [][Dedupe]_vars
SpecOrganize == Init /\ [][Organize]_vars
SpecEncrypt == Init /\ [][Encrypt]_vars
SpecCombined == Init /\ [][Combined]_vars

----------------------------------------------------------------------------
(* What the properties read of the last invocation *)

\* the filesystem the i-th call of the last invocation found
Before(i) == IF i = 1 THEN pre ELSE sys[i - 1].st

Calls(what) == {i \in 1..Len(sys) : sys[i].call = what}
Lines(what) == {i \in 1..Len(out) : out[i].line = what}

Mutating == {"mkdir", "rename", "unlink", "write"}

OnlyDedupe == args.dedupe # "none" /\ args.organize = "none" /\ ~args.encrypt
OnlyOrganize == args.dedupe = "none" /\ args.organize # "none" /\ ~args.encrypt
OnlyEncrypt == args.dedupe = "none" /\ args.organize = "none" /\ args.encrypt

----------------------------------------------------------------------------
(* C1: safe_move never overwrites an existing file.  The destination it    *)
(* resolves does not exist when it is resolved; when the requested         *)
(* destination exists, the resolved one differs from it and is             *)
(* <stem>__<k><suffix> in the same parent; and the move leaves every       *)
(* regular file other than the source where it was, with its content, and  *)
(* puts the source's entry at the resolved destination.                    *)
C1_SafeMoveNeverOverwrites ==
    /\ \A i \in Calls("exists") :
          LET dest == sys[i].path
              final == sys[i].to
              at == sys[i].st
          IN /\ ~exists(at, final)
             /\ ~exists(at, dest) => final = dest
             /\ exists(at, dest) =>
                   /\ final # dest
                   /\ parent(final) = parent(dest)
                   /\ \E k \in 1..Cardinality(DOMAIN at) :
                         name(final) = stem_of(name(dest)) \o <<"_", "_">>
                                         \o Decimal(k) \o suffix_of(name(dest))
    /\ \A i \in Calls("rename") :
          LET src == sys[i].path
              final == sys[i].to
              before == Before(i)
              after == sys[i].st
          IN /\ ~exists(before, final)
             /\ \A p \in DOMAIN before :
                   p # src /\ before[p].kind = "reg" =>
                      p \in DOMAIN after /\ after[p] = before[p]
             /\ final \in DOMAIN after /\ after[final] = before[src]

\* a move whose requested destination and first candidate both existed
C1_Witness ==
    \E i \in Calls("rename") : \E j \in Calls("exists") :
        /\ j < i
        /\ sys[j].to = sys[i].to
        /\ sys[j].to = Candidate(sys[j].path, 2)

----------------------------------------------------------------------------
(* C2: dedupe in report mode never mutates the filesystem, with or without *)
(* --apply: the tree after the invocation is the tree before it, and the   *)
(* invocation made no call that creates, moves, deletes or writes.         *)
C2_ReportNeverMutates ==
    (code # "" /\ OnlyDedupe /\ args.dedupe = "report") =>
        /\ fs = pre
        /\ \A i \in 1..Len(sys) : sys[i].call \notin Mutating

\* a report run under --apply that found duplicates
C2_Witness ==
    /\ code = "0" /\ OnlyDedupe
    /\ args.dedupe = "report" /\ args.apply
    /\ Lines("duplicate") # {}

----------------------------------------------------------------------------
(* C3: for dedupe-move and organize, a dry run and an applied run started  *)
(* from the same unmodified tree report the same set of (source, resolved  *)
(* destination) pairs, also when several sources of one run request the    *)
(* same destination.                                                       *)

\* the (source, destination) pairs of the move lines of an output
MovePairs(o) ==
    {<<o[i].src, o[i].dst>> : i \in {j \in 1..Len(o) : o[j].line = "move"}}

C3_DryRunReportsAppliedPairs ==
    (code = "0" /\ ~args.apply /\ (args.organize # "none"
                                    \/ args.dedupe = "move")) =>
        MovePairs(out) = MovePairs(main(pre, [args EXCEPT !.apply = TRUE]).out)

----------------------------------------------------------------------------
(* C4: for every duplicate group find_duplicates returns, dedupe_action    *)
(* retains exactly one member, that member has the minimum path-string     *)
(* length of the group, and every other member is the one reported         *)
(* (report), relocated (move) or removed (delete).                         *)

\* the duplicate groups find_duplicates returns on the tree the invocation
\* found
DedupeGroups ==
    find_duplicates(World(pre), resolve(pre, args.root),
                    Job(args, resolve(pre, args.root), args.dedupe,
                        OrDefault(args.duplicates_dir,
                                  resolve(pre, args.root), DUPLICATES))).acc

Members(g) == {g.paths[k] : k \in 1..Len(g.paths)}

\* the members of a group the invocation announced as kept
Kept(g) == {p \in Members(g) : \E i \in Lines("keep") : out[i].src = p}

\* the line that reports the fate of a non-kept member in each mode
FateLine ==
    CASE args.dedupe = "report" -> "duplicate"
      [] args.dedupe = "move" -> "move"
      [] OTHER -> "delete"

\* the invocation acted on p: it printed its line and, when applied, moved
\* or unlinked it or reported that it could not
Operated(p) ==
    /\ \E i \in Lines(FateLine) : out[i].src = p
    /\ (args.apply /\ args.dedupe = "move") =>
          \E i \in Calls("rename") : sys[i].path = p
    /\ (args.apply /\ args.dedupe = "delete") =>
          \/ \E i \in Calls("unlink") : sys[i].path = p
          \/ \E i \in Lines("Failed to delete") : out[i].src = p

\* the invocation left p alone
Retained(p) ==
    /\ \A i \in Lines(FateLine) : out[i].src # p
    /\ \A i \in Calls("rename") \cup Calls("unlink") : sys[i].path # p
    /\ p \in DOMAIN fs /\ fs[p] = pre[p]

----------------------------------------------------------------------------
(* C5: no data loss in dedupe.  After an applied dedupe in move or delete  *)
(* mode the kept member of every group still exists at its path with its   *)
(* content readable, and in move mode the content of every non-kept member *)
(* is at its resolved destination; for every tree the walker can yield,    *)
(* links included, and after repeated runs.                                *)
C5_DedupeLosesNoData ==
    (code = "0" /\ OnlyDedupe /\ args.apply /\ args.dedupe # "report") =>
        /\ \A i \in Lines("keep") :
              /\ is_file(fs, out[i].src)
              /\ read_bytes(fs, out[i].src) = read_bytes(pre, out[i].src)
        /\ \A i \in Lines("move") :
              /\ is_file(fs, out[i].dst)
              /\ read_bytes(fs, out[i].dst) = read_bytes(pre, out[i].src)

----------------------------------------------------------------------------
(* C6: find_duplicates never calls compute_file_hash on a file whose byte  *)
(* size no other yielded file shares: only members of size buckets of two  *)
(* or more are hashed, and every group returned has two members or more.   *)

\* the files iter_files yields on the tree the invocation found
Yielded ==
    LET got == iter_files(World(pre), resolve(pre, args.root),
                          [Job(args, resolve(pre, args.root), "", <<>>)
                              EXCEPT !.kind = "collect"]).acc
    IN {got[k] : k \in 1..Len(got)}

SharesSize(p) ==
    \E q \in Yielded : q # p /\ st_size(pre, q) = st_size(pre, p)

C6_UniqueSizesNeverHashed ==
    (code = "0" /\ OnlyDedupe) =>
        /\ \A i \in Calls("hash") :
              sys[i].path \in Yielded /\ SharesSize(sys[i].path)
        /\ \A n \in 1..Len(DedupeGroups) : Len(DedupeGroups[n].paths) >= 2

\* a run that hashed some files and left one of a unique size unhashed
C6_Witness ==
    /\ code = "0" /\ OnlyDedupe
    /\ Calls("hash") # {}
    /\ \E p \in Yielded :
          /\ ~SharesSize(p)
          /\ \A i \in Calls("hash") : sys[i].path # p

----------------------------------------------------------------------------
(* C7: organize is idempotent.  After an applied organize run (ext or date *)
(* mode, organize directory inside or outside the root), the same          *)
(* invocation on the resulting tree moves nothing and organize_files       *)
(* returns 0.                                                              *)
C7_OrganizeIdempotent ==
    (code = "0" /\ OnlyOrganize /\ args.apply) =>
        \E again \in {main(fs, args)} :
            /\ again.ret.organize = <<0>>
            /\ MovePairs(again.out) = {}
            /\ again.fs = fs

----------------------------------------------------------------------------
(* C8: under the dry-run flag safe_move, and every action built on it,     *)
(* leaves the filesystem untouched: nothing is moved and no file or        *)
(* directory is created, while the existence of the destination is still   *)
(* probed for every move it reports.                                       *)
C8_DryRunTouchesNothing ==
    (code # "" /\ ~args.apply /\ ~args.encrypt) =>
        /\ fs = pre
        /\ \A i \in 1..Len(sys) : sys[i].call \notin Mutating
        /\ \A i \in Lines("move") :
              \E j \in Calls("exists") : sys[j].to = out[i].dst

----------------------------------------------------------------------------
(* C9: in encrypt_tree with remove-originals a source is deleted only      *)
(* after its encrypted artifact has been written in the same run (never    *)
(* before the write, never in a dry run), and a failure to delete a source *)
(* is reported without stopping the processing of the remaining files.     *)

\* what encrypt_tree reads of the arguments of the last invocation
EncryptJob ==
    Job(args, resolve(pre, args.root), "",
        OrDefault(args.encryption_output_dir, resolve(pre, args.root),
                  ENCRYPTED))

\* the j-th call wrote the encrypted artifact of src: a token of the bytes
\* src held, at the artifact's path
WroteArtifact(j, src) ==
    /\ sys[j].call = "write"
    /\ sys[j].path = encrypted_path(src, EncryptJob)
    /\ \E token \in {read_bytes(sys[j].st, sys[j].path)} :
          /\ Len(token) >= 2 /\ token[1] = "fernet"
          /\ SubSeq(token, 3, Len(token)) = read_bytes(Before(j), src)

\* the (source, artifact) pairs of the encrypt lines of an output
EncryptPairs(o) ==
    {<<o[i].src, o[i].dst>> :
        i \in {j \in 1..Len(o) : o[j].line = "encrypt"}}

C9_DeleteOnlyAfterWrite ==
    (code # "" /\ OnlyEncrypt) =>
        /\ \A i \in Calls("unlink") :
              /\ args.apply /\ args.remove_originals
              /\ \E j \in 1..(i - 1) : WroteArtifact(j, sys[i].path)
        /\ ~args.apply => Calls("unlink") = {}
        /\ Lines("Failed to delete") # {} =>
              \E unfailing \in {main(pre, [args EXCEPT !.unlink_fails = {}])} :
                  /\ code = "0"
                  /\ EncryptPairs(out) = EncryptPairs(unfailing.out)
                  /\ ret.encrypt = unfailing.ret.encrypt

\* a run that could not delete one source, went on to encrypt another and
\* deleted it
C9_Witness ==
    /\ code = "0" /\ OnlyEncrypt
    /\ \E i \in Lines("Failed to delete") :
          \E j \in Lines("encrypt") :
              /\ i < j
              /\ \E k \in Calls("unlink") : sys[k].path = out[j].src

----------------------------------------------------------------------------
(* C10: configuration-fatal errors exit with a non-zero code before any    *)
(* mutation.  With an invalid root, or with --encrypt and the encryption   *)
(* library missing, the process exits with code 2 and nothing has been     *)
(* created, moved or deleted: not the key file, not the output             *)
(* directories, nothing --dedupe or --organize touch in the invocation.    *)
C10_FatalBeforeMutation ==
    code # "" =>
        /\ (~exists(pre, args.root) \/ ~is_dir(pre, args.root)) => code = "2"
        /\ (args.encrypt /\ ~args.lib) => code = "2"
        /\ code = "2" =>
              /\ fs = pre
              /\ \A i \in 1..Len(sys) : sys[i].call \notin Mutating

----------------------------------------------------------------------------
(* C11: a file's encrypt failure is recoverable per item.  When reading,   *)
(* encrypting or writing one file fails during an applied encrypt_tree,    *)
(* the run goes on: it ends normally and the artifact of every other       *)
(* eligible file, those the run without the failure encrypts, is written.  *)
C11_EncryptFailureSkipsOneFile ==
    (code # "" /\ OnlyEncrypt /\ args.apply /\ args.read_fails # {}) =>
        \E unfailing \in {main(pre, [args EXCEPT !.read_fails = {}])} :
            unfailing.err = "0" =>
                /\ code = "0"
                /\ \A pair \in EncryptPairs(unfailing.out) :
                      pair[1] \notin args.read_fails =>
                          \E j \in Calls("write") : sys[j].path = pair[2]

----------------------------------------------------------------------------
(* C12: key material is created once per key-file path and reused.  Once   *)
(* a key is persisted at a path, every later encrypt invocation naming     *)
(* that path, whatever --apply and --remove-originals, the default key     *)
(* file under the root included, encrypts with the same key bytes, and no  *)
(* encrypt run deletes or replaces the key file.                           *)

\* key_file = args.key_file or (root_dir / '_key.fernet')
KeyFile ==
    OrDefault(args.key_file, resolve(pre, args.root), KEY_FERNET)

C12_KeyCreatedOnceAndReused ==
    (code # "" /\ OnlyEncrypt) =>
        /\ is_file(pre, KeyFile) =>
              /\ KeyFile \in DOMAIN fs /\ fs[KeyFile] = pre[KeyFile]
              /\ \A j \in Calls("write") :
                    \E token \in {read_bytes(sys[j].st, sys[j].path)} :
                        /\ Len(token) >= 2 /\ token[1] = "fernet"
                        /\ token[2] = read_bytes(pre, KeyFile)[2]
        /\ \A j \in Calls("write") :
              sys[j].path = KeyFile =>
                  /\ ~exists(Before(j), KeyFile)
                  /\ KeyFile \in DOMAIN fs /\ fs[KeyFile] = sys[j].st[KeyFile]
        /\ \A j \in Calls("unlink") : sys[j].path # KeyFile

----------------------------------------------------------------------------
(* C13: iter_files yields only regular files.  No path it yields is a      *)
(* symbolic link or a directory, so every file an invocation fingerprints  *)
(* or announces as kept is a regular file of the tree it found.            *)
C13_YieldsOnlyRegularFiles ==
    (code # "" /\ OnlyDedupe) =>
        /\ \A p \in Yielded : p \in DOMAIN pre /\ pre[p].kind = "reg"
        /\ \A i \in Calls("hash") : pre[sys[i].path].kind = "reg"
        /\ \A i \in Lines("keep") : pre[out[i].src].kind = "reg"

----------------------------------------------------------------------------
(* C14: encrypt_tree never processes a file whose name bears the marker    *)
(* extension '.enc'.  Such a file is not encrypted, not deleted and not    *)
(* counted, so no artifact of an artifact ('.enc.enc') is produced, with   *)
(* the output directory under the root too, in one run or in repeated      *)
(* runs.                                                                   *)

BearsMarker(p) == suffix_of(name(p)) = DOT_ENC

C14_EncryptedFilesAreSkipped ==
    (code # "" /\ OnlyEncrypt) =>
        /\ \A i \in Lines("encrypt") \cup Lines("delete original") :
              ~BearsMarker(out[i].src)
        /\ \A j \in Calls("read") \cup Calls("unlink") :
              ~BearsMarker(sys[j].path)
        /\ code = "0" => ret.encrypt = <<Cardinality(Lines("encrypt"))>>
        /\ \A p \in DOMAIN fs :
              BearsMarker(p) => suffix_of(stem_of(name(p))) # DOT_ENC

\* an applied run with --remove-originals that found artifacts of an
\* earlier run under the root and encrypted other files
C14_Witness ==
    /\ code = "0" /\ OnlyEncrypt /\ args.apply /\ args.remove_originals
    /\ \E p \in Yielded : BearsMarker(p) /\ p \in DOMAIN fs
    /\ \E i \in Lines("encrypt") : out[i].src \in DOMAIN pre

----------------------------------------------------------------------------
(* C15: encrypt is safe to run again.  An applied encrypt run on a tree    *)
(* where an earlier applied run wrote the artifact of a source skips that  *)
(* source: it does not write its artifact again and does not count it.     *)

\* the sources whose artifact the invocation found written
AlreadyDone ==
    {p \in DOMAIN pre :
        /\ is_file(pre, p) /\ ~BearsMarker(p)
        /\ is_file(pre, encrypted_path(p, EncryptJob))}

C15_RerunSkipsDoneFiles ==
    (code = "0" /\ OnlyEncrypt /\ args.apply) =>
        /\ \A i \in Lines("encrypt") : out[i].src \notin AlreadyDone
        /\ \A j \in Calls("write") :
              \A p \in AlreadyDone :
                  sys[j].path # encrypted_path(p, EncryptJob)
        /\ \E done \in {Cardinality({i \in Lines("encrypt") :
                                        out[i].src \in AlreadyDone})} :
              ret.encrypt = <<Cardinality(Lines("encrypt")) - done>>

----------------------------------------------------------------------------
(* C16: the kept member of a duplicate group is determined by the set of   *)
(* member paths.  When several members share the minimum path length, the  *)
(* member dedupe_action keeps does not depend on the order in which the    *)
(* traversal yielded them: the same invocation under another listing order *)
(* keeps the same members.                                                 *)

\* the paths an output announces as kept
KeptPaths(o) ==
    {o[i].src : i \in {j \in 1..Len(o) : o[j].line = "keep"}}

C16_KeptMemberIgnoresOrder ==
    (code = "0" /\ OnlyDedupe) =>
        \A o \in Orders :
            KeptPaths(main(pre, [args EXCEPT !.order = o]).out)
                = KeptPaths(out)

----------------------------------------------------------------------------
(* C17: dedupe_action returns (group count, files moved-or-deleted count). *)
(* The first component is the number of duplicate groups, the second the   *)
(* number of non-kept files the call moved or deleted, in every mode, dry  *)
(* and applied: 0 in report mode and whenever nothing was moved or         *)
(* deleted.                                                                *)
C17_ReturnsGroupsAndOperated ==
    (code = "0" /\ OnlyDedupe) =>
        ret.dedupe = <<Len(DedupeGroups),
                       Cardinality(Calls("rename") \cup Calls("unlink"))>>

====
